---- MODULE Spec2Model ----
(***************************************************************************)
(* The flood status service: the HTTP handler of internal/server           *)
(* (handler.flood) and the camera analyzer of internal/genai               *)
(* (TrafficAnalyzer.IsRoadOpen).                                           *)
(*                                                                         *)
(* Time is the monotonic clock in minutes.  0 is the zero time.Time.       *)
(* Strings are TLA+ strings; the sparkles rune of the AI marker is         *)
(* written "*".                                                            *)
(***************************************************************************)
EXTENDS Integers, Sequences, FiniteSets, TLC

\* ------------------------------------------------------------- bounds
\* Number of concurrent HTTP requests (goroutines of net/http).
NReq == 2
\* Largest number of configured camera URLs.
NCams == 2
\* Number of times the clock advances.
MaxTicks == 3
\* Minutes by which the clock advances in one step.
Quantum == 5
\* Largest number of items of a feed given to the handler on its own.
MaxItems == 3

\* ------------------------------------------------- program constants
\* 15*time.Minute, in minutes.
TTL == 15
\* The largest time.Duration (2^63-1 ns), in minutes: what time.Since
\* saturates to for the zero time.
MaxDuration == 153722867
\* The zero time.Time.
ZeroTime == 0

\* The goroutines serving requests.
Reqs == 1..NReq

\* Options.Road
Road == "124th"

\* Options.FeedURL
FeedURL == "https://gismaps.kingcounty.gov/roadalert/rss.aspx"

\* The marker of an AI-derived detail.
AIPrefix == "* Analysis: "

\* The text part every model request starts with.
Instruction ==
    "Analyze these traffic camera images of the intersection of 124th "
    \o "and SR203/Novelty Hill Rd. Determine if the road appears to be closed. "
    \o "Look for 'Road Closed' signs, traffic cones, or barricades. Ignore normal "
    \o "traffic. If the road is closed, reply with 'CLOSED: <reason>'. If the road "
    \o "is open, reply with 'OPEN: <reason>'. Keep the reason short (1 sentence)."

\* ------------------------------------------------------------ strings
\* strings.HasPrefix
HasPrefix(s, p) == Len(s) >= Len(p) /\ SubSeq(s, 1, Len(p)) = p

\* strings.Contains
Contains(s, sub) ==
    \E i \in 1..(Len(s) - Len(sub) + 1) : SubSeq(s, i, i + Len(sub) - 1) = sub

\* strings.Index: the 0-based index of the first occurrence, -1 if none.
Index(s, sub) ==
    LET at == {i \in 1..(Len(s) - Len(sub) + 1) :
                   SubSeq(s, i, i + Len(sub) - 1) = sub}
    IN  IF at = {} THEN -1
        ELSE (CHOOSE i \in at : \A j \in at : i <= j) - 1

IsSpace(c) == c = " " \/ c = "\t" \/ c = "\n" \/ c = "\r"

RECURSIVE TrimLeft(_)
TrimLeft(s) ==
    IF Len(s) > 0 /\ IsSpace(SubSeq(s, 1, 1))
    THEN TrimLeft(SubSeq(s, 2, Len(s)))
    ELSE s

RECURSIVE TrimRight(_)
TrimRight(s) ==
    IF Len(s) > 0 /\ IsSpace(SubSeq(s, Len(s), Len(s)))
    THEN TrimRight(SubSeq(s, 1, Len(s) - 1))
    ELSE s

\* strings.TrimSpace
TrimSpace(s) == TrimRight(TrimLeft(s))

LowerChars == "abcdefghijklmnopqrstuvwxyz"
UpperChars == "ABCDEFGHIJKLMNOPQRSTUVWXYZ"

UpperChar(c) ==
    LET at == {i \in 1..Len(LowerChars) : SubSeq(LowerChars, i, i) = c}
    IN  IF at = {} THEN c
        ELSE LET i == CHOOSE k \in at : TRUE IN SubSeq(UpperChars, i, i)

\* strings.ToUpper
RECURSIVE ToUpper(_)
ToUpper(s) ==
    IF Len(s) = 0 THEN s
    ELSE UpperChar(SubSeq(s, 1, 1)) \o ToUpper(SubSeq(s, 2, Len(s)))

\* t.In(loc).Format(time.RFC1123): the rendering of an instant.
Format(t) == "T" \o ToString(t)

\* ------------------------------------------------------- feed records
\* gofeed.Item: PublishedParsed is ZeroTime for a nil pointer.
Item(title, link, published) ==
    [Title |-> title, Link |-> link, PublishedParsed |-> published]

\* The feeds a fetch may return.
Feeds ==
    { << Item("Closed - 124th", "http://a", 3) >>,
      << Item("Open - Some other road", "http://b", 0),
         Item("Open - 124th", "http://c", 0) >> }

\* Titles of feed items: about the road or not, with each of the prefixes,
\* in another case, and with "Closed" further on in the title.
Titles ==
    { "Open - Some other road", "Closed - Some other road",
      "Closed - 124th", "Open - 124th", "Restricted - 124th",
      "closed - 124th", "124th St Closed" }

\* The feed with these titles: item i links to its own page, and every item
\* but the first has a publication time.
FeedOf(titles) ==
    [i \in 1..Len(titles) |-> Item(titles[i], "http://" \o ToString(i), i - 1)]

\* Every feed of at most MaxItems items.
AllFeeds == {FeedOf(titles) : titles \in UNION {[1..n -> Titles] : n \in 0..MaxItems}}

\* templateData{Open: o, Road: road}
TemplateData(o, road) ==
    [Road |-> road, Open |-> o, Detail |-> "", Link |-> "", Published |-> ""]

\* ScanItems without the break: the last matching item wins.
RECURSIVE ScanItemsLast(_, _, _)
ScanItemsLast(items, road, i) ==
    IF i > Len(items) THEN TemplateData(TRUE, road)
    ELSE IF \E j \in (i + 1)..Len(items) : Contains(items[j].Title, road)
         THEN ScanItemsLast(items, road, i + 1)
         ELSE IF Contains(items[i].Title, road)
              THEN [Road |-> road,
                    Open |-> ~HasPrefix(items[i].Title, "Closed"),
                    Detail |-> items[i].Title,
                    Link |-> items[i].Link,
                    Published |-> IF items[i].PublishedParsed # ZeroTime
                                  THEN Format(items[i].PublishedParsed)
                                  ELSE ""]
              ELSE TemplateData(TRUE, road)

\* ScanItems with strings.Contains for strings.HasPrefix.
RECURSIVE ScanItemsClosedAnywhere(_, _, _)
ScanItemsClosedAnywhere(items, road, i) ==
    IF i > Len(items) THEN TemplateData(TRUE, road)
    ELSE IF Contains(items[i].Title, road)
         THEN [Road |-> road,
               Open |-> ~Contains(items[i].Title, "Closed"),
               Detail |-> items[i].Title,
               Link |-> items[i].Link,
               Published |-> IF items[i].PublishedParsed # ZeroTime
                             THEN Format(items[i].PublishedParsed)
                             ELSE ""]
         ELSE ScanItemsClosedAnywhere(items, road, i + 1)

\* ScanItems that takes the prefix of any item for the status of the road.
RECURSIVE ScanItemsAnyRoad(_, _, _)
ScanItemsAnyRoad(items, road, i) ==
    IF i > Len(items) THEN TemplateData(TRUE, road)
    ELSE IF Contains(items[i].Title, road)
         THEN [Road |-> road,
               Open |-> ~HasPrefix(items[i].Title, "Closed"),
               Detail |-> items[i].Title,
               Link |-> items[i].Link,
               Published |-> IF items[i].PublishedParsed # ZeroTime
                             THEN Format(items[i].PublishedParsed)
                             ELSE ""]
         ELSE IF HasPrefix(items[i].Title, "Closed")
              THEN TemplateData(FALSE, road)
              ELSE ScanItemsAnyRoad(items, road, i + 1)

\* The loop over feed.Items, from item i on.
RECURSIVE ScanItems(_, _, _)
ScanItems(items, road, i) ==
    IF i > Len(items) THEN TemplateData(TRUE, road)
    ELSE IF Contains(items[i].Title, road)
         THEN [Road |-> road,
               Open |-> ~HasPrefix(items[i].Title, "Closed"),
               Detail |-> items[i].Title,
               Link |-> items[i].Link,
               Published |-> IF items[i].PublishedParsed # ZeroTime
                             THEN Format(items[i].PublishedParsed)
                             ELSE ""]
         ELSE ScanItems(items, road, i + 1)

\* The feed-derived record.
FeedRecord(items, road) == ScanItems(items, road, 1)

\* ----------------------------------------------------- analyzer values
\* What IsRoadOpen returns: (bool, string, time.Time, error).
Result(o, d, t, e) == [open |-> o, detail |-> d, updated |-> t, err |-> e]

NoResult == Result(FALSE, "", ZeroTime, "none")

ErrResult(e) == Result(FALSE, "", ZeroTime, e)

\* The text of the first part of the model's first candidate.
Replies == { "CLOSED: flooded", "OPEN: clear" }

\* Texts a model may reply: the replies of the test, replies in another case
\* or within white space, without colon, with several colons, with CLOSED
\* further on, and texts that hold nothing.
AllReplies ==
    { "CLOSED: The road is completely flooded.",
      "OPEN: Traffic is moving normally.",
      " \tclosed : cones across the road \n",
      "Closed",
      "OPEN",
      "NOT CLOSED: traffic is moving",
      "Open: sign says: detour",
      "CLOSED:",
      "",
      "  \n" }

\* ParseOpen without strings.ToUpper.
ParseOpenCaseSensitive(text) == ~HasPrefix(TrimSpace(text), "CLOSED")

\* The verdict parsed from the model's reply.
ParseOpen(text) == ~HasPrefix(ToUpper(TrimSpace(text)), "CLOSED")

ParseDetail(text) ==
    LET t == TrimSpace(text)
        idx == Index(t, ":")
    IN  IF idx # -1 THEN TrimSpace(SubSeq(t, idx + 2, Len(t))) ELSE t

\* time.Since(lastCheck) read at time t.
Since(t, lc) == IF lc = ZeroTime THEN MaxDuration ELSE t - lc

\* CacheFresh with <= for <.
CacheFreshInclusive(t, lc) == Since(t, lc) <= TTL /\ lc # ZeroTime

\* The cache check.
CacheFresh(t, lc) == Since(t, lc) < TTL /\ lc # ZeroTime

\* MergeRecord updating td in place: Link and Published of the feed item stay.
MergeRecordInPlace(rec, res, road) ==
    IF res.err = "nil" /\ rec.Open # res.open
    THEN [rec EXCEPT !.Open = res.open, !.Detail = AIPrefix \o res.detail]
    ELSE rec

\* MergeRecord without the test for disagreement.
MergeRecordAlways(rec, res, road) ==
    IF res.err = "nil"
    THEN [Road |-> road,
          Open |-> res.open,
          Detail |-> AIPrefix \o res.detail,
          Link |-> "",
          Published |-> Format(res.updated)]
    ELSE rec

\* MergeRecord without the test of err.
MergeRecordIgnoringErr(rec, res, road) ==
    IF rec.Open # res.open
    THEN [Road |-> road,
          Open |-> res.open,
          Detail |-> AIPrefix \o res.detail,
          Link |-> "",
          Published |-> Format(res.updated)]
    ELSE rec

\* The record the handler renders after the analyzer has returned res.
MergeRecord(rec, res, road) ==
    IF res.err = "nil" /\ rec.Open # res.open
    THEN [Road |-> road,
          Open |-> res.open,
          Detail |-> AIPrefix \o res.detail,
          Link |-> "",
          Published |-> Format(res.updated)]
    ELSE rec

\* -------------------------------------------------------------- state
VARIABLES
    override,      \* handler.override: "None", "Open" or "Closed"
    road,          \* handler.road
    feedURL,       \* handler.feedURL
    analyzer,      \* handler.analyzer: "nil", "noclient" (client unset), "ready"
    model,         \* TrafficAnalyzer.model: the model name, "" if none was given
    cameraURLs,    \* TrafficAnalyzer.cameraURLs
    buffy,         \* the page executed once by flood() under an override
    now,           \* the clock
    lastCheck,     \* TrafficAnalyzer.lastCheck
    cachedOpen,    \* TrafficAnalyzer.cachedOpen
    cachedDetail,  \* TrafficAnalyzer.cachedDetail
    mu,            \* TrafficAnalyzer.mu: 0 when free, else the holder
    pc,            \* where each request is
    feed,          \* feed and err of ParseURLWithContext in each request
    td,            \* td of each request
    cam,           \* the index of the camera loop
    parts,         \* parts of each IsRoadOpen call
    fetched,       \* for each camera the loop has tried, whether its image was read
    verdict,       \* the reply of the model, isOpen and detail of each IsRoadOpen call
    ret,           \* what IsRoadOpen returned to each request
    resp,          \* what each request wrote to its caller
    nFeed,         \* feed fetches of each request
    nCam,          \* camera fetches of each request
    nModel,        \* GenerateContent calls of each request
    lastModelCall, \* when GenerateContent was last called
    committed,     \* what the last successful analysis returned
    waited         \* for each request blocked in Lock, the analysis that ended
                   \* meanwhile; forgotten when the request starts its own

config == <<override, road, feedURL, analyzer, model, cameraURLs, buffy>>
cache == <<lastCheck, cachedOpen, cachedDetail>>
counters == <<nFeed, nCam, nModel, lastModelCall>>
locals == <<feed, td, cam, parts, fetched, verdict, ret, resp>>
history == <<committed, waited>>
vars == <<config, cache, counters, locals, history, now, mu, pc>>

Overrides == {"None", "Open", "Closed"}

CameraURL(i) == "cam" \o ToString(i)

\* An image part made of the body of url.
ImagePart(url) == [kind |-> "image", data |-> url]

TextPart(text) == [kind |-> "text", data |-> text]

EmptyData == [Road |-> "", Open |-> FALSE, Detail |-> "", Link |-> "", Published |-> ""]

NoResponse == [status |-> "none", body |-> EmptyData]

\* The template executed on rec and written with status 200 (the write to
\* the caller is taken to succeed).
Page(rec) == [status |-> "ok", body |-> rec]

\* internalError: status 500 and no record.
InternalError == [status |-> "error", body |-> EmptyData]

NoVerdict == [reply |-> "", isOpen |-> FALSE, detail |-> ""]

\* What ParseURLWithContext returned: nothing yet, a feed, or an error.
NoFeed == [status |-> "none", Items |-> <<>>]

FeedOK(items) == [status |-> "ok", Items |-> items]

FeedError == [status |-> "error", Items |-> <<>>]

\* OverridePage with Open set whenever an override is.
OverridePageAlwaysOpen(o) ==
    IF o # "None" THEN Page(TemplateData(o # "None", Road)) ELSE NoResponse

\* flood(), called once by NewHandler: the page of the override.
OverridePage(o) ==
    IF o # "None" THEN Page(TemplateData(o = "Open", Road)) ELSE NoResponse

\* Options.GeminiModel of a deployment that names its model.
GeminiModel == "gemini-flash"

\* NewHandler and NewTrafficAnalyzer, given a model name among models (an
\* analyzer without client is one built as the test builds it).
Configured(models) ==
    /\ override \in Overrides
    /\ road = Road
    /\ feedURL = FeedURL
    /\ analyzer \in {"nil", "noclient", "ready"}
    /\ model \in IF analyzer = "nil" THEN {""} ELSE models
    /\ cameraURLs \in {[i \in 1..n |-> CameraURL(i)] : n \in {0, NCams}}
    /\ buffy = OverridePage(override)

\* Nothing has happened yet.
Started ==
    /\ now = 1
    /\ lastCheck = ZeroTime
    /\ cachedOpen = FALSE
    /\ cachedDetail = ""
    /\ mu = 0
    /\ pc = [r \in Reqs |-> "idle"]
    /\ feed = [r \in Reqs |-> NoFeed]
    /\ td = [r \in Reqs |-> EmptyData]
    /\ cam = [r \in Reqs |-> 0]
    /\ parts = [r \in Reqs |-> <<>>]
    /\ fetched = [r \in Reqs |-> <<>>]
    /\ verdict = [r \in Reqs |-> NoVerdict]
    /\ ret = [r \in Reqs |-> NoResult]
    /\ resp = [r \in Reqs |-> NoResponse]
    /\ nFeed = [r \in Reqs |-> 0]
    /\ nCam = [r \in Reqs |-> 0]
    /\ nModel = [r \in Reqs |-> 0]
    /\ lastModelCall = ZeroTime
    /\ committed = NoResult
    /\ waited = [r \in Reqs |-> NoResult]

Init == Configured({GeminiModel}) /\ Started

\* ------------------------------------------------------------ actions
\* The clock advances.
Tick ==
    /\ now + Quantum <= 1 + MaxTicks * Quantum
    /\ now' = now + Quantum
    /\ UNCHANGED <<config, history, cache, counters, locals, mu, pc>>

\* The requests blocked in ta.mu.Lock() while request q holds the lock.
Blocked(q) == {r \in Reqs : r # q /\ pc[r] = "call" /\ mu = q}

\* The handler returned under an override: the page executed at construction.
ServeOverride(r) ==
    /\ pc[r] = "idle"
    /\ override # "None"
    /\ resp' = [resp EXCEPT ![r] = buffy]
    /\ pc' = [pc EXCEPT ![r] = "done"]
    /\ UNCHANGED <<config, history, cache, counters, feed, td, cam, parts, fetched, verdict, ret, now, mu>>

\* FeedFetchFail answering with the default page instead of the error.
FeedFetchFailMasked(r) ==
    /\ pc[r] = "idle"
    /\ override = "None"
    /\ nFeed' = [nFeed EXCEPT ![r] = @ + 1]
    /\ feed' = [feed EXCEPT ![r] = FeedError]
    /\ td' = [td EXCEPT ![r] = TemplateData(TRUE, Road)]
    /\ resp' = [resp EXCEPT ![r] = Page(td'[r])]
    /\ pc' = [pc EXCEPT ![r] = "done"]
    /\ UNCHANGED <<config, history, cache, nCam, nModel, lastModelCall,
                   cam, parts, fetched, verdict, ret, now, mu>>

\* ParseURLWithContext failed: internalError and return.
FeedFetchFail(r) ==
    /\ pc[r] = "idle"
    /\ override = "None"
    /\ nFeed' = [nFeed EXCEPT ![r] = @ + 1]
    /\ feed' = [feed EXCEPT ![r] = FeedError]
    /\ resp' = [resp EXCEPT ![r] = InternalError]
    /\ pc' = [pc EXCEPT ![r] = "done"]
    /\ UNCHANGED <<config, history, cache, nCam, nModel, lastModelCall,
                   td, cam, parts, fetched, verdict, ret, now, mu>>

\* ParseURLWithContext succeeded with one of feeds: the feed-derived td;
\* without an analyzer the template is executed on it.
FetchFeed(r, feeds) ==
    /\ pc[r] = "idle"
    /\ override = "None"
    /\ \E items \in feeds :
         /\ feed' = [feed EXCEPT ![r] = FeedOK(items)]
         /\ td' = [td EXCEPT ![r] = FeedRecord(items, road)]
    /\ nFeed' = [nFeed EXCEPT ![r] = @ + 1]
    /\ IF analyzer # "nil"
       THEN /\ pc' = [pc EXCEPT ![r] = "call"]
            /\ resp' = resp
       ELSE /\ pc' = [pc EXCEPT ![r] = "done"]
            /\ resp' = [resp EXCEPT ![r] = Page(td'[r])]
    /\ UNCHANGED <<config, history, cache, nCam, nModel, lastModelCall,
                   cam, parts, fetched, verdict, ret, now, mu>>

FeedFetchOK(r) == FetchFeed(r, Feeds)

\* The feed fetch of a handler given any feed.
FeedFetchAny(r) == FetchFeed(r, AllFeeds)

\* IsRoadOpen returns res to the handler, which merges it into td and
\* executes the template.
Return(r, res) ==
    /\ ret' = [ret EXCEPT ![r] = res]
    /\ td' = [td EXCEPT ![r] = MergeRecord(td[r], res, road)]
    /\ resp' = [resp EXCEPT ![r] = Page(td'[r])]
    /\ pc' = [pc EXCEPT ![r] = "done"]
    /\ cam' = [cam EXCEPT ![r] = 0]
    /\ parts' = [parts EXCEPT ![r] = <<>>]
    /\ fetched' = [fetched EXCEPT ![r] = <<>>]
    /\ verdict' = [verdict EXCEPT ![r] = NoVerdict]

\* defer ta.mu.Unlock()
Unlock(r) == mu' = IF mu = r THEN 0 ELSE mu

\* NotInitialized without the test of the client: the call goes on to the
\* lock.
NotInitializedUnchecked(r) ==
    /\ pc[r] = "call"
    /\ analyzer = "noclient"
    /\ mu = 0
    /\ mu' = r
    /\ pc' = [pc EXCEPT ![r] = "check"]
    /\ UNCHANGED <<config, history, cache, counters, locals, now>>

\* IsRoadOpen on an analyzer without a client.
NotInitialized(r) ==
    /\ pc[r] = "call"
    /\ analyzer = "noclient"
    /\ Return(r, ErrResult("not initialized"))
    /\ UNCHANGED <<config, history, cache, counters, feed, now, mu>>

\* Lock that does not wait for the holder.
LockUnguarded(r) ==
    /\ pc[r] = "call"
    /\ analyzer = "ready"
    /\ mu' = r
    /\ pc' = [pc EXCEPT ![r] = "check"]
    /\ UNCHANGED <<config, history, cache, counters, locals, now>>

\* ta.mu.Lock()
Lock(r) ==
    /\ pc[r] = "call"
    /\ analyzer = "ready"
    /\ mu = 0
    /\ mu' = r
    /\ pc' = [pc EXCEPT ![r] = "check"]
    /\ UNCHANGED <<config, history, cache, counters, locals, now>>

\* CacheHit that renews the cache: lastCheck is set to the time of the hit.
CacheHitRenewing(r) ==
    /\ pc[r] = "check"
    /\ CacheFresh(now, lastCheck)
    /\ Return(r, Result(cachedOpen, cachedDetail, lastCheck, "nil"))
    /\ Unlock(r)
    /\ lastCheck' = now
    /\ UNCHANGED <<config, history, cachedOpen, cachedDetail, counters, feed, now>>

\* The cache is fresh: the cached verdict is returned.
CacheHit(r) ==
    /\ pc[r] = "check"
    /\ CacheFresh(now, lastCheck)
    /\ Return(r, Result(cachedOpen, cachedDetail, lastCheck, "nil"))
    /\ Unlock(r)
    /\ UNCHANGED <<config, history, cache, counters, feed, now>>

\* The cache is not fresh: parts holds the instruction and the camera loop starts.
CacheMiss(r) ==
    /\ pc[r] = "check"
    /\ ~CacheFresh(now, lastCheck)
    /\ parts' = [parts EXCEPT ![r] = << TextPart(Instruction) >>]
    /\ cam' = [cam EXCEPT ![r] = 1]
    /\ pc' = [pc EXCEPT ![r] = "fetch"]
    /\ waited' = [waited EXCEPT ![r] = NoResult]
    /\ UNCHANGED <<config, committed, cache, counters, feed, td, fetched, verdict, ret, resp, now, mu>>

\* How one camera fetch may end.
FetchOutcomes == {"ok", "request error", "fetch error", "bad status", "read error"}

\* PartsAfter without the continue after a failed read of the body.
PartsAfterFailedRead(ps, url, outcome) ==
    IF outcome \in {"ok", "read error"} THEN Append(ps, ImagePart(url)) ELSE ps

\* parts after the fetch of url ended in outcome.
PartsAfter(ps, url, outcome) ==
    IF outcome = "ok" THEN Append(ps, ImagePart(url)) ELSE ps

\* CameraFetch with return for continue: a camera that fails ends the analysis.
CameraFetchAborting(r) ==
    /\ pc[r] = "fetch"
    /\ cam[r] <= Len(cameraURLs)
    /\ nCam' = [nCam EXCEPT ![r] = @ + 1]
    /\ \/ /\ parts' = [parts EXCEPT ![r] = PartsAfter(@, cameraURLs[cam[r]], "ok")]
          /\ fetched' = [fetched EXCEPT ![r] = Append(@, TRUE)]
          /\ cam' = [cam EXCEPT ![r] = @ + 1]
          /\ UNCHANGED <<td, verdict, ret, resp, mu, pc>>
       \/ /\ Return(r, ErrResult("no images"))
          /\ Unlock(r)
    /\ UNCHANGED <<config, history, cache, nFeed, nModel, lastModelCall, feed, now>>

\* One iteration of the loop over cameraURLs.
CameraFetch(r) ==
    /\ pc[r] = "fetch"
    /\ cam[r] <= Len(cameraURLs)
    /\ \E outcome \in FetchOutcomes :
         /\ parts' = [parts EXCEPT ![r] = PartsAfter(@, cameraURLs[cam[r]], outcome)]
         /\ fetched' = [fetched EXCEPT ![r] = Append(@, outcome = "ok")]
    /\ cam' = [cam EXCEPT ![r] = @ + 1]
    /\ nCam' = [nCam EXCEPT ![r] = @ + 1]
    /\ UNCHANGED <<config, history, cache, nFeed, nModel, lastModelCall,
                   feed, td, verdict, ret, resp, now, mu, pc>>

\* NoImages that also clears the cache.
NoImagesClearing(r) ==
    /\ pc[r] = "fetch"
    /\ cam[r] > Len(cameraURLs)
    /\ Len(parts[r]) <= 1
    /\ Return(r, ErrResult("no images"))
    /\ Unlock(r)
    /\ lastCheck' = ZeroTime
    /\ cachedOpen' = FALSE
    /\ cachedDetail' = ""
    /\ UNCHANGED <<config, history, counters, feed, now>>

\* NoImages with the test len(parts) <= 1 left out: the model is asked about
\* the instruction alone and fails.
NoImagesAskingModel(r) ==
    /\ pc[r] = "fetch"
    /\ cam[r] > Len(cameraURLs)
    /\ Len(parts[r]) <= 1
    /\ nModel' = [nModel EXCEPT ![r] = @ + 1]
    /\ lastModelCall' = now
    /\ Return(r, ErrResult("api error"))
    /\ Unlock(r)
    /\ UNCHANGED <<config, history, cache, nFeed, nCam, feed, now>>

\* NoImages that returns with the lock held, as without the deferred Unlock.
NoImagesKeepingLock(r) ==
    /\ pc[r] = "fetch"
    /\ cam[r] > Len(cameraURLs)
    /\ Len(parts[r]) <= 1
    /\ Return(r, ErrResult("no images"))
    /\ UNCHANGED <<config, history, cache, counters, feed, now, mu>>

\* len(parts) <= 1 after the loop.
NoImages(r) ==
    /\ pc[r] = "fetch"
    /\ cam[r] > Len(cameraURLs)
    /\ Len(parts[r]) <= 1
    /\ Return(r, ErrResult("no images"))
    /\ Unlock(r)
    /\ UNCHANGED <<config, history, cache, counters, feed, now>>

\* GenerateContent is called.
CallModel(r) ==
    /\ pc[r] = "fetch"
    /\ cam[r] > Len(cameraURLs)
    /\ Len(parts[r]) > 1
    /\ nModel' = [nModel EXCEPT ![r] = @ + 1]
    /\ lastModelCall' = now
    /\ UNCHANGED <<nFeed, nCam>>

\* ModelError that calls GenerateContent again.
ModelErrorRetrying(r) ==
    /\ CallModel(r)
    /\ UNCHANGED <<config, history, cache, locals, now, mu, pc>>

\* ModelError that falls back on the cache: after a failed call the cached
\* verdict, if there is one, is returned whatever its age.
ModelErrorServingStale(r) ==
    /\ CallModel(r)
    /\ Return(r, IF lastCheck # ZeroTime
                 THEN Result(cachedOpen, cachedDetail, lastCheck, "nil")
                 ELSE ErrResult("api error"))
    /\ Unlock(r)
    /\ UNCHANGED <<config, history, cache, feed, now>>

\* GenerateContent returned an error.
ModelError(r) ==
    /\ CallModel(r)
    /\ Return(r, ErrResult("api error"))
    /\ Unlock(r)
    /\ UNCHANGED <<config, history, cache, feed, now>>

\* ModelEmpty that starts a window: lastCheck is set although the analysis
\* failed.
ModelEmptyThrottling(r) ==
    /\ CallModel(r)
    /\ Return(r, ErrResult("empty response"))
    /\ Unlock(r)
    /\ lastCheck' = now
    /\ UNCHANGED <<config, history, cachedOpen, cachedDetail, feed, now>>

\* GenerateContent returned no candidate, content or part.
ModelEmpty(r) ==
    /\ CallModel(r)
    /\ Return(r, ErrResult("empty response"))
    /\ Unlock(r)
    /\ UNCHANGED <<config, history, cache, feed, now>>

\* The locals of IsRoadOpen once the reply text is parsed.
Verdict(text) ==
    [reply |-> text, isOpen |-> ParseOpen(text), detail |-> ParseDetail(text)]

\* ModelReply that releases the lock before the cache is written.
ModelReplyUnlocking(r) ==
    /\ CallModel(r)
    /\ \E text \in Replies : verdict' = [verdict EXCEPT ![r] = Verdict(text)]
    /\ pc' = [pc EXCEPT ![r] = "storeOpen"]
    /\ mu' = 0
    /\ UNCHANGED <<config, history, cache, feed, td, cam, parts, fetched, ret, resp, now>>

\* GenerateContent returned one of replies as the text of the first part of
\* its first candidate, which is parsed.
ModelReplyFrom(r, replies) ==
    /\ CallModel(r)
    /\ \E text \in replies : verdict' = [verdict EXCEPT ![r] = Verdict(text)]
    /\ pc' = [pc EXCEPT ![r] = "storeOpen"]
    /\ UNCHANGED <<config, history, cache, feed, td, cam, parts, fetched, ret, resp, now, mu>>

ModelReply(r) == ModelReplyFrom(r, Replies)

\* The reply of a model that may answer anything.
ModelReplyAny(r) == ModelReplyFrom(r, AllReplies)

\* ta.cachedOpen = isOpen
StoreOpen(r) ==
    /\ pc[r] = "storeOpen"
    /\ cachedOpen' = verdict[r].isOpen
    /\ pc' = [pc EXCEPT ![r] = "storeDetail"]
    /\ UNCHANGED <<config, history, lastCheck, cachedDetail, counters, locals, now, mu>>

\* ta.cachedDetail = detail
StoreDetail(r) ==
    /\ pc[r] = "storeDetail"
    /\ cachedDetail' = verdict[r].detail
    /\ pc' = [pc EXCEPT ![r] = "storeTime"]
    /\ UNCHANGED <<config, history, lastCheck, cachedOpen, counters, locals, now, mu>>

\* ta.lastCheck = time.Now() and the return of the fresh verdict.
StoreTime(r) ==
    /\ pc[r] = "storeTime"
    /\ lastCheck' = now
    /\ Return(r, Result(verdict[r].isOpen, verdict[r].detail, now, "nil"))
    /\ Unlock(r)
    /\ committed' = ret'[r]
    /\ waited' = [q \in Reqs |-> IF q \in Blocked(r) THEN ret'[r] ELSE waited[q]]
    /\ UNCHANGED <<config, cachedOpen, cachedDetail, counters, feed, now>>

\* The request is over; the goroutine serves the next one.
Finish(r) ==
    /\ pc[r] = "done"
    /\ pc' = [pc EXCEPT ![r] = "idle"]
    /\ feed' = [feed EXCEPT ![r] = NoFeed]
    /\ td' = [td EXCEPT ![r] = EmptyData]
    /\ ret' = [ret EXCEPT ![r] = NoResult]
    /\ resp' = [resp EXCEPT ![r] = NoResponse]
    /\ nFeed' = [nFeed EXCEPT ![r] = 0]
    /\ nCam' = [nCam EXCEPT ![r] = 0]
    /\ nModel' = [nModel EXCEPT ![r] = 0]
    /\ waited' = [waited EXCEPT ![r] = NoResult]
    /\ UNCHANGED <<config, committed, cache, lastModelCall, cam, parts, fetched, verdict, now, mu>>

Next ==
    \/ Tick
    \/ \E r \in Reqs :
         \/ ServeOverride(r)
         \/ FeedFetchFail(r)
         \/ FeedFetchOK(r)
         \/ NotInitialized(r)
         \/ Lock(r)
         \/ CacheHit(r)
         \/ CacheMiss(r)
         \/ CameraFetch(r)
         \/ NoImages(r)
         \/ ModelError(r)
         \/ ModelEmpty(r)
         \/ ModelReply(r)
         \/ StoreOpen(r)
         \/ StoreDetail(r)
         \/ StoreTime(r)
         \/ Finish(r)

Spec == Init /\ [][Next]_vars

\* A step of request r inside IsRoadOpen other than the wait for the lock:
\* each ends when a camera fetch (10 s timeout) or the model call returns.
Proceed(r) ==
    \/ NotInitialized(r)
    \/ CacheHit(r)
    \/ CacheMiss(r)
    \/ CameraFetch(r)
    \/ NoImages(r)
    \/ ModelError(r)
    \/ ModelEmpty(r)
    \/ ModelReply(r)
    \/ StoreOpen(r)
    \/ StoreDetail(r)
    \/ StoreTime(r)

\* The goroutine of a request inside IsRoadOpen keeps running, and
\* sync.Mutex hands the lock to a goroutine that keeps waiting for it.
Fairness == \A r \in Reqs : WF_vars(Proceed(r)) /\ SF_vars(Lock(r))

\* A handler with analyzer and cameras and no override, under any number of
\* requests, the feed and the model each giving one answer: the requests
\* differ in where they are with respect to the lock.
InitLive == Init /\ override = "None" /\ analyzer = "ready" /\ Len(cameraURLs) = NCams

NextLive ==
    \/ Tick
    \/ \E r \in Reqs :
         \/ FetchFeed(r, { << Item("Closed - 124th", "http://a", 3) >> })
         \/ Lock(r)
         \/ CacheHit(r)
         \/ CacheMiss(r)
         \/ CameraFetch(r)
         \/ NoImages(r)
         \/ ModelError(r)
         \/ ModelEmpty(r)
         \/ ModelReplyFrom(r, {"OPEN: clear"})
         \/ StoreOpen(r)
         \/ StoreDetail(r)
         \/ StoreTime(r)
         \/ Finish(r)

SpecLive == InitLive /\ [][NextLive]_vars /\ Fairness

\* The handler as main.go builds it without an override: no API key, hence
\* no analyzer, serving one request at a time whatever the feed holds.
InitFeed == Init /\ override = "None" /\ analyzer = "nil"

NextFeed ==
    \/ FeedFetchAny(1)
    \/ FeedFetchFail(1)
    \/ Finish(1)

SpecFeed == InitFeed /\ [][NextFeed]_vars

\* A handler without override, with or without a model name, serving one
\* request at a time, whatever the model replies.
InitSingle == Configured({"", GeminiModel}) /\ override = "None" /\ Started

NextSingle ==
    \/ Tick
    \/ FeedFetchOK(1)
    \/ NotInitialized(1)
    \/ Lock(1)
    \/ CacheHit(1)
    \/ CacheMiss(1)
    \/ CameraFetch(1)
    \/ NoImages(1)
    \/ ModelError(1)
    \/ ModelEmpty(1)
    \/ ModelReplyAny(1)
    \/ StoreOpen(1)
    \/ StoreDetail(1)
    \/ StoreTime(1)
    \/ Finish(1)

SpecSingle == InitSingle /\ [][NextSingle]_vars

\* ------------------------------------------------------------- claims
\* The record of the feed fetched by request r.
FeedDerived(r) == FeedRecord(feed[r].Items, Road)

\* Request r is over and the analyzer was asked in it.
Answered(r) == pc[r] = "done" /\ override = "None" /\ feed[r].status = "ok"

\* C1: under an override every request returns open = (override is Open)
\* with empty detail, link and timestamp, and no request fetches the feed,
\* fetches a camera or calls the model.
C1_OverrideWins ==
    override # "None" =>
        \A r \in Reqs :
            /\ nFeed[r] = 0 /\ nCam[r] = 0 /\ nModel[r] = 0
            /\ pc[r] \in {"idle", "done"}
            /\ pc[r] = "done" =>
                 /\ resp[r].status = "ok"
                 /\ resp[r].body.Open = (override = "Open")
                 /\ resp[r].body.Detail = ""
                 /\ resp[r].body.Link = ""
                 /\ resp[r].body.Published = ""

C1_Witness ==
    /\ override = "Closed"
    /\ analyzer = "ready"
    /\ \E r \in Reqs : pc[r] = "done" /\ resp[r].body.Open = FALSE

\* C2: when the analyzer returns a verdict without error that differs from
\* the feed-derived open flag, the returned record is the AI one: the
\* verdict, the marker followed by the AI detail, no link, the analysis time.
C2_DisagreementAdoptsAI ==
    \A r \in Reqs :
        (Answered(r) /\ ret[r].err = "nil" /\ ret[r].open # FeedDerived(r).Open) =>
            /\ resp[r].status = "ok"
            /\ resp[r].body.Road = Road
            /\ resp[r].body.Open = ret[r].open
            /\ resp[r].body.Detail = AIPrefix \o ret[r].detail
            /\ resp[r].body.Link = ""
            /\ resp[r].body.Published = Format(ret[r].updated)

C2_Witness ==
    \E r \in Reqs :
        /\ Answered(r)
        /\ HasPrefix(feed[r].Items[1].Title, "Closed")
        /\ ret[r].err = "nil" /\ ret[r].open
        /\ resp[r].body.Open

\* C3: when the analyzer's verdict agrees with the feed-derived open flag,
\* the returned record is the feed-derived record and holds neither the AI
\* detail nor the analysis time.
C3_AgreementKeepsFeed ==
    \A r \in Reqs :
        (Answered(r) /\ ret[r].err = "nil" /\ ret[r].open = FeedDerived(r).Open) =>
            /\ resp[r].status = "ok"
            /\ resp[r].body = FeedDerived(r)
            /\ ~HasPrefix(resp[r].body.Detail, AIPrefix)
            /\ ~Contains(resp[r].body.Detail, ret[r].detail)
            /\ resp[r].body.Published # Format(ret[r].updated)

C3_Witness ==
    \E r \in Reqs :
        /\ Answered(r)
        /\ ret[r].err = "nil" /\ ~ret[r].open /\ ret[r].detail # ""
        /\ resp[r].body.Detail = "Closed - 124th"
        /\ resp[r].body.Link # ""

AnalyzerErrors == {"not initialized", "no images", "api error", "empty response"}

\* C4: whatever error the analyzer returns, the request succeeds with the
\* feed-derived record.
C4_AnalyzerErrorsAbsorbed ==
    \A r \in Reqs :
        (Answered(r) /\ ret[r].err \in AnalyzerErrors) =>
            /\ resp[r].status = "ok"
            /\ resp[r].body = FeedDerived(r)

C4_Witness ==
    \E r, q \in Reqs :
        /\ Answered(r) /\ ret[r].err = "api error" /\ resp[r].body.Open
        /\ Answered(q) /\ ret[q].err = "no images" /\ ~resp[q].body.Open

\* A request whose feed fetch failed is over with a failure and nothing else.
FeedFailureIsFinal ==
    \A r \in Reqs :
        feed[r].status = "error" =>
            /\ pc[r] = "done"
            /\ resp[r] = InternalError
            /\ nFeed[r] = 1 /\ nCam[r] = 0 /\ nModel[r] = 0
            /\ ret[r] = NoResult
            /\ td[r] = EmptyData

\* A request is inside IsRoadOpen, or back from it, only after its one
\* successful feed fetch.
FeedFirst ==
    \A r \in Reqs :
        (pc[r] \notin {"idle", "done"} \/ ret[r] # NoResult) =>
            feed[r].status = "ok" /\ nFeed[r] = 1

\* The step in which the feed fetch of a request fails changes neither
\* the cache nor the lock.
FeedFailureStep ==
    \A r \in Reqs :
        (feed[r].status = "none" /\ feed'[r].status = "error") =>
            UNCHANGED <<cache, mu>>

\* C5: a feed failure ends the request with a failure and no record, after
\* one fetch, without the analyzer and without a change of the cache; the
\* feed is fetched before the analyzer is invoked.
C5_FeedFailureSurfaces ==
    /\ [](FeedFailureIsFinal /\ FeedFirst)
    /\ [][FeedFailureStep]_vars

C5_Witness ==
    \E r, q \in Reqs :
        /\ feed[r].status = "error" /\ pc[r] = "done"
        /\ lastCheck # ZeroTime
        /\ pc[q] = "fetch"

\* Request r leaves the cache check in this step.
CacheCheckStep(r) == pc[r] = "check" /\ pc'[r] # "check"

\* Request r returns from IsRoadOpen in this step with res, having fetched
\* no camera and called no model, and the cache stays as it is.
ServedFromCache(r, res) ==
    /\ pc'[r] = "done"
    /\ ret'[r] = res
    /\ nCam'[r] = 0 /\ nModel'[r] = 0
    /\ UNCHANGED cache

\* Request r starts the camera loop in this step.
StartsAnalysis(r) == pc'[r] = "fetch" /\ cam'[r] = 1 /\ ret'[r] = NoResult

CacheCheckServes ==
    \A r \in Reqs :
        (CacheCheckStep(r) /\ committed # NoResult) =>
            IF now < committed.updated + TTL
            THEN ServedFromCache(r, committed)
            ELSE StartsAnalysis(r)

\* C6: after a successful analysis at T, a cache check before T + 15 min
\* returns what that analysis returned, with T and no error, without a camera
\* fetch or a model call; a cache check at T + 15 min or later starts a
\* fresh analysis.
C6_FreshCacheServed == [][CacheCheckServes]_vars

C6_Witness ==
    \E r \in Reqs :
        /\ pc[r] = "done" /\ analyzer = "ready"
        /\ ret[r] = committed /\ ret[r].err = "nil"
        /\ nCam[r] = 0 /\ nModel[r] = 0
        /\ \E q \in Reqs : pc[q] = "fetch" /\ now = committed.updated + TTL

ModelCallsApart ==
    \A r \in Reqs :
        nModel'[r] = nModel[r] + 1 =>
            (lastModelCall = ZeroTime \/ now - lastModelCall >= TTL)

\* C7: whatever the requests and the outcomes of the fetches and of the model
\* calls, two calls of the model are at least 15 min apart.
C7_OneModelCallPerWindow == [][ModelCallsApart]_vars

\* The pcs between Lock and Unlock.
Critical == {"check", "fetch", "storeOpen", "storeDetail", "storeTime"}

\* At most one request is between Lock and Unlock, and it holds the lock.
MutualExclusion ==
    /\ \A r, q \in Reqs : (pc[r] \in Critical /\ pc[q] \in Critical) => r = q
    /\ \A r \in Reqs : pc[r] \in Critical => mu = r
    /\ mu # 0 => pc[mu] \in Critical

\* A request that was blocked while an analysis succeeded returns that
\* analysis from the cache.
WaiterServed ==
    \A r \in Reqs :
        (CacheCheckStep(r) /\ waited[r] # NoResult) =>
            ServedFromCache(r, waited[r])

\* The same, for a cache check less than 15 min after that analysis.
WaiterServedInTime ==
    \A r \in Reqs :
        (CacheCheckStep(r) /\ waited[r] # NoResult
            /\ now < waited[r].updated + TTL) =>
            ServedFromCache(r, waited[r])

\* C8 as stated: one request at a time is between the cache check and the
\* cache update, and every request that waited for a successful refresh
\* returns that refresh's verdict without a fetch or a model call of its own.
C8_WaitersServed == []MutualExclusion /\ [][WaiterServed]_vars

\* C8 amended: the same, for the waiting requests whose cache check comes
\* less than 15 min after the refresh.
C8_WaitersServedInTime == []MutualExclusion /\ [][WaiterServedInTime]_vars

C8_Witness ==
    \E r, q \in Reqs :
        /\ r # q
        /\ pc[r] = "done" /\ waited[r] # NoResult
        /\ ret[r] = waited[r] /\ nCam[r] = 0 /\ nModel[r] = 0
        /\ pc[q] = "done" /\ ret[q] = waited[r] /\ nModel[q] = 1

\* What a request at its cache check reads is what the last successful
\* analysis returned, or the initial values.
CacheWhole ==
    \A r \in Reqs :
        pc[r] = "check" =>
            Result(cachedOpen, cachedDetail, lastCheck, committed.err) = committed

\* No step taken while a request is at the cache check or in the camera
\* loop, the steps that end its analysis in an error among them, changes
\* the cache.
CacheKeptUntilSuccess ==
    (\E r \in Reqs : pc[r] \in {"check", "fetch"}) => UNCHANGED cache

\* C9: the cache is written whole or not at all.
C9_CacheAllOrNothing == []CacheWhole /\ [][CacheKeptUntilSuccess]_vars

C9_Witness ==
    \E r, q \in Reqs :
        /\ pc[r] = "done" /\ ret[r].err \in {"api error", "empty response"}
        /\ pc[q] = "check"
        /\ committed # NoResult
        /\ ~CacheFresh(now, lastCheck)

\* C10: lastCheck never decreases.
C10_LastCheckMonotonic == [][lastCheck' >= lastCheck]_vars

C10_Witness ==
    \E r \in Reqs :
        /\ pc[r] = "done" /\ ret[r].err = "nil"
        /\ ret[r].updated # ZeroTime
        /\ ret[r].updated < lastCheck

\* The items of the feed of request r that mention the road.
Matching(r) ==
    {i \in 1..Len(feed[r].Items) : Contains(feed[r].Items[i].Title, Road)}

\* The first of them in feed order.
FirstMatch(r) ==
    feed[r].Items[CHOOSE i \in Matching(r) : \A j \in Matching(r) : i <= j]

\* Request r is over in a handler without analyzer: what it wrote is the
\* feed-derived record.
FeedServed(r) == Answered(r) /\ analyzer = "nil" /\ resp[r].status = "ok"

TitlesOf(r) == [i \in 1..Len(feed[r].Items) |-> feed[r].Items[i].Title]

\* C11: when several items mention the road, the feed-derived record has
\* the title of the first of them as detail and its link as link, however
\* many other items precede it and whatever the later ones say; the feed
\* "Open - Some other road", "Closed - 124th", "Open - 124th" gives
\* closed with detail "Closed - 124th".
C11_FirstMatchWins ==
    \A r \in Reqs :
        (FeedServed(r) /\ Matching(r) # {}) =>
            /\ resp[r].body.Detail = FirstMatch(r).Title
            /\ resp[r].body.Link = FirstMatch(r).Link
            /\ TitlesOf(r) = << "Open - Some other road", "Closed - 124th", "Open - 124th" >>
                 => /\ resp[r].body.Open = FALSE
                    /\ resp[r].body.Detail = "Closed - 124th"
                    /\ resp[r].body.Link = "http://2"

C11_Witness ==
    \E r \in Reqs :
        /\ FeedServed(r)
        /\ TitlesOf(r) = << "Open - Some other road", "Closed - 124th", "Open - 124th" >>
        /\ Cardinality(Matching(r)) = 2
        /\ resp[r].body.Detail = "Closed - 124th"

\* The first n characters of s.
FirstChars(s, n) == IF Len(s) >= n THEN SubSeq(s, 1, n) ELSE s

\* C12: the feed-derived open flag is false exactly when the title of the
\* first item that mentions the road starts with "Closed", in that case;
\* "Open", "Restricted", "closed" and a "Closed" further on give open.
C12_ClosedPrefixOnly ==
    \A r \in Reqs :
        (FeedServed(r) /\ Matching(r) # {}) =>
            /\ resp[r].body.Open = FALSE <=> FirstChars(FirstMatch(r).Title, 6) = "Closed"
            /\ FirstMatch(r).Title \in {"Open - 124th", "Restricted - 124th",
                                        "closed - 124th", "124th St Closed"}
                 => resp[r].body.Open = TRUE
            /\ FirstMatch(r).Title = "Closed - 124th" => resp[r].body.Open = FALSE

C12_Witness ==
    \E r \in Reqs :
        /\ FeedServed(r)
        /\ Matching(r) # {}
        /\ FirstMatch(r).Title = "124th St Closed"
        /\ resp[r].body.Open = TRUE

Parsed == {r \in Reqs : pc[r] \in {"storeOpen", "storeDetail", "storeTime"}}

\* s starts with p, the case of letters aside.
StartsWithFold(s, p) ==
    /\ Len(s) >= Len(p)
    /\ \A i \in 1..Len(p) : UpperChar(SubSeq(s, i, i)) = UpperChar(SubSeq(p, i, i))

\* d is what follows the first colon of t, trimmed, or t if t has no colon.
IsDetailOf(d, t) ==
    IF \E k \in 1..Len(t) : SubSeq(t, k, k) = ":"
    THEN \E k \in 1..Len(t) :
            /\ SubSeq(t, k, k) = ":"
            /\ \A j \in 1..(k - 1) : SubSeq(t, j, j) # ":"
            /\ d = TrimSpace(SubSeq(t, k + 1, Len(t)))
    ELSE d = t

\* The verdict and detail each reply stands for.
Expected(text) ==
    CASE text = "CLOSED: The road is completely flooded."
            -> << FALSE, "The road is completely flooded." >>
      [] text = "OPEN: Traffic is moving normally."
            -> << TRUE, "Traffic is moving normally." >>
      [] text = " \tclosed : cones across the road \n"
            -> << FALSE, "cones across the road" >>
      [] text = "Closed" -> << FALSE, "Closed" >>
      [] text = "OPEN" -> << TRUE, "OPEN" >>
      [] text = "NOT CLOSED: traffic is moving" -> << TRUE, "traffic is moving" >>
      [] text = "Open: sign says: detour" -> << TRUE, "sign says: detour" >>
      [] text = "CLOSED:" -> << FALSE, "" >>
      [] text = "" -> << TRUE, "" >>
      [] text = "  \n" -> << TRUE, "" >>

\* C16: the verdict of a reply is closed exactly when the trimmed reply
\* starts with "CLOSED" in any case, and its detail is the trimmed text after
\* the first colon of the trimmed reply, or the trimmed reply without colon.
C16_ReplyParsed ==
    \A r \in Parsed :
        LET t == TrimSpace(verdict[r].reply) IN
        /\ verdict[r].isOpen = ~StartsWithFold(t, "CLOSED")
        /\ IsDetailOf(verdict[r].detail, t)
        /\ << verdict[r].isOpen, verdict[r].detail >> = Expected(verdict[r].reply)

C16_Witness ==
    \E r \in Parsed :
        /\ verdict[r].reply = " \tclosed : cones across the road \n"
        /\ verdict[r].isOpen = FALSE
        /\ verdict[r].detail = "cones across the road"

\* Some camera the loop of request r has tried gave its image.
SomeImage(r) == \E i \in 1..Len(fetched[r]) : fetched[r][i]

\* The loop of request r has tried each camera before cam[r] once, and a
\* request past the loop has tried them all and read an image.
LoopProgress ==
    \A r \in Reqs :
        /\ pc[r] = "fetch" =>
             /\ cam[r] \in 1..(Len(cameraURLs) + 1)
             /\ Len(fetched[r]) = cam[r] - 1
             /\ nCam[r] = cam[r] - 1
        /\ r \in Parsed =>
             /\ Len(fetched[r]) = Len(cameraURLs)
             /\ nCam[r] = Len(cameraURLs)
             /\ SomeImage(r)
             /\ nModel[r] = 1

\* While cameras remain, whatever the camera just tried gave, the request
\* stays in the loop and goes on to the next camera, and neither the lock
\* nor the cache changes.
FailureOnlySkips ==
    \A r \in Reqs :
        (pc[r] = "fetch" /\ cam[r] <= Len(cameraURLs) /\ nCam'[r] # nCam[r]) =>
            /\ pc'[r] = "fetch"
            /\ cam'[r] = cam[r] + 1
            /\ Len(fetched'[r]) = Len(fetched[r]) + 1
            /\ ret'[r] = NoResult
            /\ UNCHANGED <<cache, mu>>

\* The request leaves the loop only after the last camera, and with an
\* image it calls the model.
ImageReachesModel ==
    \A r \in Reqs :
        (pc[r] = "fetch" /\ pc'[r] # "fetch") =>
            /\ Len(fetched[r]) = Len(cameraURLs)
            /\ SomeImage(r) =>
                 /\ nModel'[r] = nModel[r] + 1
                 /\ pc'[r] = "storeOpen" \/ ret'[r].err \in {"api error", "empty response"}

\* C14: a camera that fails is skipped and nothing more: the cameras after
\* it are tried, and with one image or more the model is called and the
\* analysis can succeed.
C14_CameraFailureSkipped ==
    /\ []LoopProgress
    /\ [][FailureOnlySkips /\ ImageReachesModel]_vars

C14_Witness ==
    \E r \in Reqs :
        /\ pc[r] = "storeTime"
        /\ fetched[r] = << FALSE, TRUE >>
        /\ parts[r] = << TextPart(Instruction), ImagePart(CameraURL(2)) >>
        /\ nCam[r] = 2 /\ nModel[r] = 1

\* A fresh analysis of request r ends in this step without any image.
EndsWithoutImage(r) == pc[r] = "fetch" /\ pc'[r] # "fetch" /\ ~SomeImage(r)

NoImageIsAnError ==
    \A r \in Reqs :
        EndsWithoutImage(r) =>
            /\ pc'[r] = "done"
            /\ ret'[r] = ErrResult("no images")
            /\ nModel'[r] = 0
            /\ lastModelCall' = lastModelCall
            /\ UNCHANGED cache
            /\ resp'[r] = Page(FeedDerived(r))

\* C15: when every camera fails, or there is no camera, IsRoadOpen returns
\* an error without a model call and without a change of the cache, and the
\* request returns the feed-derived record.
C15_NoImagesFails == [][NoImageIsAnError]_vars

C15_Witness ==
    \E r \in Reqs :
        /\ Answered(r)
        /\ ret[r] = ErrResult("no images")
        /\ nCam[r] = NCams /\ nModel[r] = 0
        /\ lastCheck # ZeroTime
        /\ resp[r].body = FeedDerived(r)
        /\ resp[r].body.Open = FALSE

\* The cache as NewTrafficAnalyzer leaves it.
CacheUntouched == lastCheck = ZeroTime /\ cachedOpen = FALSE /\ cachedDetail = ""

\* Every IsRoadOpen call has failed at once with "not initialized": no
\* request is past the call, none has fetched a camera or called the model,
\* and the lock and the cache are as they were built.
FailsAtOnce ==
    /\ \A r \in Reqs :
         /\ pc[r] \in {"idle", "call", "done"}
         /\ nCam[r] = 0 /\ nModel[r] = 0
         /\ Answered(r) =>
              /\ ret[r] = ErrResult("not initialized")
              /\ resp[r] = Page(FeedDerived(r))
    /\ mu = 0
    /\ CacheUntouched
    /\ lastModelCall = ZeroTime

\* A handler without analyzer never calls IsRoadOpen and returns the
\* feed-derived record.
NeverInvoked ==
    analyzer = "nil" =>
        /\ \A r \in Reqs :
             /\ pc[r] \in {"idle", "done"}
             /\ ret[r] = NoResult
             /\ nCam[r] = 0 /\ nModel[r] = 0
             /\ Answered(r) => resp[r] = Page(FeedDerived(r))
        /\ mu = 0
        /\ CacheUntouched

\* C17 as stated: an analyzer without client or without model name fails at
\* once, with no camera fetch, no model call and the cache unchanged; a
\* handler built without API key never invokes the analyzer and returns the
\* feed-derived record.
C17_NotConfiguredFails ==
    /\ (analyzer = "noclient" \/ (analyzer = "ready" /\ model = "")) => FailsAtOnce
    /\ NeverInvoked

\* C17 amended: the same of an analyzer without client; the model name is
\* not looked at.
C17_NoClientFails ==
    /\ analyzer = "noclient" => FailsAtOnce
    /\ NeverInvoked

C17_Witness ==
    /\ analyzer = "noclient"
    /\ \E r \in Reqs :
         /\ Answered(r)
         /\ ret[r] = ErrResult("not initialized")
         /\ resp[r].body.Open = FALSE

\* A reply with something in it besides white space.
Usable(text) == TrimSpace(text) # ""

\* The model call of request r ends in this step without a verdict.
ModelCallFails(r) == pc[r] = "fetch" /\ nModel'[r] = nModel[r] + 1 /\ pc'[r] = "done"

\* Such a call returns an error of the model and leaves the cache alone.
ModelFailureReturned ==
    \A r \in Reqs :
        ModelCallFails(r) =>
            /\ ret'[r] \in {ErrResult("api error"), ErrResult("empty response")}
            /\ UNCHANGED cache

\* No verdict comes from a reply that holds nothing.
VerdictsFromUsableReplies == \A r \in Parsed : Usable(verdict[r].reply)

\* C18: a model call that fails or returns nothing usable makes IsRoadOpen
\* return a model error, without verdict and with the cache unchanged; a
\* reply that holds nothing never becomes a verdict and is never cached.
C18_UnusableReplyIsError ==
    /\ []VerdictsFromUsableReplies
    /\ [][ModelFailureReturned]_vars

\* Each request has fetched the feed at most once, tried no camera twice
\* and called the model at most once.
NoRetry ==
    \A r \in Reqs :
        /\ nFeed[r] <= 1
        /\ nCam[r] <= Len(cameraURLs)
        /\ nModel[r] <= 1
        /\ ret[r].err \in AnalyzerErrors => pc[r] = "done"
        /\ feed[r].status = "error" => pc[r] = "done"

\* A request that is over does nothing more, and the camera a request
\* tries is the one after those it has tried.
NoRetryStep ==
    \A r \in Reqs :
        /\ pc[r] = "done" =>
             /\ nFeed'[r] <= nFeed[r] /\ nCam'[r] <= nCam[r] /\ nModel'[r] <= nModel[r]
             /\ pc'[r] \in {"done", "idle"}
        /\ nCam'[r] > nCam[r] => nCam'[r] = cam[r] /\ cam'[r] = cam[r] + 1

\* C19: within one request the feed is fetched at most once, each camera is
\* tried at most once and the model is called at most once, whatever fails.
C19_NothingRetried == []NoRetry /\ [][NoRetryStep]_vars

C19_Witness ==
    \E r \in Reqs :
        /\ pc[r] = "done"
        /\ ret[r] = ErrResult("api error")
        /\ nFeed[r] = 1 /\ nCam[r] = NCams /\ nModel[r] = 1

\* The image parts of the cameras 1..n that f marks as read, in order.
RECURSIVE ImagesUpTo(_, _)
ImagesUpTo(f, n) ==
    IF n = 0 THEN << >>
    ELSE IF f[n] THEN Append(ImagesUpTo(f, n - 1), ImagePart(cameraURLs[n]))
         ELSE ImagesUpTo(f, n - 1)

\* The instruction, then the image of each camera read so far.
ExpectedParts(r) ==
    << TextPart(Instruction) >> \o ImagesUpTo(fetched[r], Len(fetched[r]))

\* parts holds just that, during the loop and when the reply is parsed.
PartsAreInstructionAndImages ==
    \A r \in Reqs :
        (pc[r] = "fetch" \/ r \in Parsed) => parts[r] = ExpectedParts(r)

\* The model is called once, after the last camera, with those parts.
ModelCalledOnceWithAll ==
    \A r \in Reqs :
        nModel'[r] > nModel[r] =>
            /\ nModel[r] = 0 /\ nModel'[r] = 1
            /\ Len(fetched[r]) = Len(cameraURLs)
            /\ nCam[r] = Len(cameraURLs)
            /\ parts[r] = ExpectedParts(r)
            /\ parts[r][1] = TextPart(Instruction)
            /\ Len(parts[r]) = 1 + Cardinality({i \in 1..Len(fetched[r]) : fetched[r][i]})

\* C20: a fresh analysis calls the model once, after every camera was tried,
\* with the instruction followed by the images of the cameras that were
\* read, in the order of the cameras, and nothing for a camera that failed.
C20_OneRequestAllImages ==
    /\ []PartsAreInstructionAndImages
    /\ [][ModelCalledOnceWithAll]_vars

C20_Witness ==
    \E r \in Reqs :
        /\ pc[r] = "storeOpen"
        /\ fetched[r] = << TRUE, FALSE >>
        /\ parts[r] = << TextPart(Instruction), ImagePart(CameraURL(1)) >>
        /\ nModel[r] = 1

\* A request is served from the cache in this step.
CacheHitStep(r) == pc[r] = "check" /\ pc'[r] = "done"

\* A step that changes the cache is a store of a request that holds the
\* lock after its analysis; a request served from the cache changes nothing
\* of it.
OnlyStoresWrite ==
    /\ cache' # cache => \E r \in Parsed : mu = r /\ pc'[r] # pc[r]
    /\ \A r \in Reqs : CacheHitStep(r) => UNCHANGED cache

\* C21: no request changes the override, the road, the feed URL or the
\* cameras (nor the analyzer and its model name); of the state the requests
\* share only the cache changes, and a cache hit leaves it as it is.
C21_ConfigurationFrozen ==
    /\ [][UNCHANGED config]_vars
    /\ [](road = Road /\ feedURL = FeedURL /\ buffy = OverridePage(override))
    /\ [][OnlyStoresWrite]_vars

C21_Witness ==
    \E r \in Reqs :
        /\ pc[r] = "done" /\ ret[r].err = "nil"
        /\ nCam[r] = 0 /\ nModel[r] = 0
        /\ ret[r] = Result(cachedOpen, cachedDetail, lastCheck, "nil")
        /\ now > lastCheck
        /\ Len(cameraURLs) = NCams

\* IsRoadOpen returns to request r in this step.
Returns(r) == pc[r] \in {"call", "check", "fetch", "storeTime"} /\ pc'[r] = "done"

\* A verdict returned without error is the one this call computed from the
\* reply of its own model call, or the one a successful analysis stored
\* less than 15 min before this call's cache check.
VerdictIsFresh ==
    \A r \in Reqs :
        (Returns(r) /\ ret'[r].err = "nil") =>
            \/ /\ pc[r] = "storeTime"
               /\ nModel[r] = 1
               /\ ret'[r] = Result(verdict[r].isOpen, verdict[r].detail, now, "nil")
            \/ /\ pc[r] = "check"
               /\ ret'[r] = committed
               /\ committed.updated # ZeroTime
               /\ now - committed.updated < TTL

\* A call whose analysis fails returns the error and nothing of the cache.
FailureReturnsError ==
    \A r \in Reqs :
        (pc[r] = "fetch" /\ pc'[r] = "done") =>
            /\ ret'[r].err \in {"no images", "api error", "empty response"}
            /\ ret'[r] = ErrResult(ret'[r].err)

\* C22: IsRoadOpen never returns a stale verdict; once the cache has
\* expired a call whose analysis fails returns an error, not the verdict the
\* cache still holds.
C22_NoStaleVerdict == [][VerdictIsFresh /\ FailureReturnsError]_vars

C22_Witness ==
    \E r \in Reqs :
        /\ pc[r] = "done"
        /\ ret[r] = ErrResult("api error")
        /\ committed.err = "nil"
        /\ cachedDetail = committed.detail /\ cachedDetail # ""
        /\ now >= lastCheck + TTL

\* No analysis has succeeded yet, or the last one that did is 15 min old.
NothingFresh == committed = NoResult \/ now - committed.updated >= TTL

\* A failed analysis leaves lastCheck alone; a cache check with nothing
\* fresh starts the camera loop; a cache hit follows a successful analysis.
FailuresNotCached ==
    \A r \in Reqs :
        /\ (pc[r] = "fetch" /\ pc'[r] = "done") => lastCheck' = lastCheck
        /\ (CacheCheckStep(r) /\ NothingFresh) => StartsAnalysis(r)
        /\ CacheHitStep(r) => committed # NoResult /\ lastCheck = committed.updated

\* lastCheck is the time of the last successful analysis, if any.
LastCheckIsLastSuccess == lastCheck = committed.updated

\* C23: a failed analysis starts no window: before the first successful
\* analysis and after the cache has expired every call of a configured
\* analyzer starts a fresh analysis, until one succeeds, and the cache is
\* served only after a successful analysis.
C23_FailuresNotCached == []LastCheckIsLastSuccess /\ [][FailuresNotCached]_vars

C23_Witness ==
    \E r, q \in Reqs :
        /\ pc[r] = "done" /\ ret[r] = ErrResult("empty response")
        /\ pc[q] = "fetch" /\ nCam[q] = NCams
        /\ lastModelCall = now
        /\ committed = NoResult

\* A request that has returned from IsRoadOpen does not hold the lock, and
\* the lock is held by a request inside.
LockHeldInside ==
    /\ \A r \in Reqs : pc[r] \notin Critical => mu # r
    /\ mu # 0 => pc[mu] \in Critical

\* C24: every return of IsRoadOpen releases the lock: a request that calls
\* IsRoadOpen gets the lock, and a request that has it returns, after which
\* the lock is not its own.
C24_LockAlwaysReleased ==
    /\ []LockHeldInside
    /\ \A r \in Reqs :
         /\ (pc[r] = "call" /\ analyzer = "ready") ~> (pc[r] = "check" /\ mu = r)
         /\ (pc[r] \in Critical \cup {"call"}) ~> (pc[r] = "done" /\ mu # r)

C24_Witness ==
    \E r, q \in Reqs :
        /\ pc[r] = "call" /\ mu = q
        /\ pc[q] = "fetch" /\ cam[q] > Len(cameraURLs)
        /\ Len(parts[q]) <= 1
        /\ lastCheck # ZeroTime

====
